---------------------------- MODULE Spec2Model ----------------------------
(***************************************************************************)
(* Model of py1090/message.py: the BaseStation line codec.                 *)
(*                                                                         *)
(* A Python str is a sequence of one-character strings, a line is the     *)
(* sequence of its comma-separated tokens (what str.split(',') returns and *)
(* what ','.join takes), an attribute of Message is <<>> for None and      *)
(* <<v>> for a value v.  A float is an exact decimal                       *)
(* [neg, m, e] = (-1)^neg * m / 10^e with m not divisible by 10 unless     *)
(* e = 0; the token vocabulary keeps to decimals of at most five places    *)
(* and fractions of a second of at most three digits, where the binary     *)
(* double arithmetic of float() and '{:.5f}' is exact on the digits.       *)
(***************************************************************************)
EXTENDS Integers, Sequences, FiniteSets

VARIABLES line,      \* the input line of from_string, as its tokens
          pc,        \* "start" | "decoded" | "encoded" | "redecoded"
          res,       \* result of Message.from_string(line)
          out,       \* Message.to_string() of the decoded message, as tokens
          res2,      \* result of Message.from_string(out)
          src,       \* the lines of the iterator given to iter_messages
          pos,       \* how many lines the iterator has handed out
          gen,       \* the generator: "suspended" | "finished"
          yielded,   \* the messages the generator has yielded, in order
          caught,    \* how many exceptions the caller caught from next()
          stopped    \* the caller got StopIteration

vars == <<line, pc, res, out, res2, src, pos, gen, yielded, caught, stopped>>

-----------------------------------------------------------------------------
(* Characters and str methods *)

Lower26 == <<"a","b","c","d","e","f","g","h","i","j","k","l","m",
             "n","o","p","q","r","s","t","u","v","w","x","y","z">>
Upper26 == <<"A","B","C","D","E","F","G","H","I","J","K","L","M",
             "N","O","P","Q","R","S","T","U","V","W","X","Y","Z">>
Digits == <<"0","1","2","3","4","5","6","7","8","9">>
Whitespace == {" ", "\n"}

IndexIn(tbl, c) == CHOOSE i \in 1..Len(tbl) : tbl[i] = c
Has(tbl, c) == \E i \in 1..Len(tbl) : tbl[i] = c

\* str.upper() / str.lower()
StrUpper(s) == [i \in 1..Len(s) |-> IF Has(Lower26, s[i]) THEN Upper26[IndexIn(Lower26, s[i])] ELSE s[i]]
StrLower(s) == [i \in 1..Len(s) |-> IF Has(Upper26, s[i]) THEN Lower26[IndexIn(Upper26, s[i])] ELSE s[i]]

RECURSIVE LStrip(_)
LStrip(s) == IF s # <<>> /\ Head(s) \in Whitespace THEN LStrip(Tail(s)) ELSE s
RECURSIVE RStrip(_)
RStrip(s) == IF s # <<>> /\ s[Len(s)] \in Whitespace THEN RStrip(SubSeq(s, 1, Len(s) - 1)) ELSE s
\* str.strip()
StrStrip(s) == RStrip(LStrip(s))

IsDigits(s) == s # <<>> /\ \A i \in 1..Len(s) : Has(Digits, s[i])
DigitVal(c) == IndexIn(Digits, c) - 1

RECURSIVE DigitsVal(_)
DigitsVal(s) == IF s = <<>> THEN 0 ELSE 10 * DigitsVal(SubSeq(s, 1, Len(s) - 1)) + DigitVal(s[Len(s)])

RECURSIVE NatStr(_)
NatStr(n) == IF n < 10 THEN <<Digits[n + 1]>> ELSE NatStr(n \div 10) \o <<Digits[(n % 10) + 1]>>

RECURSIVE Pow10(_)
Pow10(k) == IF k = 0 THEN 1 ELSE 10 * Pow10(k - 1)

RECURSIVE Zeros(_)
Zeros(k) == IF k <= 0 THEN <<>> ELSE <<"0">> \o Zeros(k - 1)

\* '{:0Nd}'.format(n) for n >= 0
ZeroPad(n, width) == Zeros(width - Len(NatStr(n))) \o NatStr(n)

\* index of the last occurrence of c in s, 0 when there is none
LastIndexOf(s, c) == IF \E i \in 1..Len(s) : s[i] = c
                     THEN CHOOSE i \in 1..Len(s) : s[i] = c /\ \A j \in (i+1)..Len(s) : s[j] # c
                     ELSE 0
FirstIndexOf(s, c) == IF \E i \in 1..Len(s) : s[i] = c
                      THEN CHOOSE i \in 1..Len(s) : s[i] = c /\ \A j \in 1..(i-1) : s[j] # c
                      ELSE 0

\* s.split(c)
RECURSIVE StrSplit(_, _)
StrSplit(s, c) == LET i == FirstIndexOf(s, c)
                  IN IF i = 0 THEN <<s>>
                     ELSE <<SubSeq(s, 1, i - 1)>> \o StrSplit(SubSeq(s, i + 1, Len(s)), c)

-----------------------------------------------------------------------------
(* int(), float(), str() *)

Unsigned(s) == IF s # <<>> /\ Head(s) \in {"+", "-"} THEN Tail(s) ELSE s
IsNegative(s) == s # <<>> /\ Head(s) = "-"

\* int(s) accepts: surrounding whitespace, an optional sign, decimal digits
IsIntText(s) == IsDigits(Unsigned(StrStrip(s)))
IntVal(s) == LET t == StrStrip(s)
             IN IF IsNegative(t) THEN 0 - DigitsVal(Unsigned(t)) ELSE DigitsVal(Unsigned(t))
\* str(n) for an int n
IntStr(n) == IF n < 0 THEN <<"-">> \o NatStr(0 - n) ELSE NatStr(n)

\* float(s) accepts: surrounding whitespace, an optional sign, digits with an
\* optional '.', at least one digit in all
IsFloatText(s) == LET u == Unsigned(StrStrip(s))
                      d == FirstIndexOf(u, ".")
                      ip == IF d = 0 THEN u ELSE SubSeq(u, 1, d - 1)
                      fp == IF d = 0 THEN <<>> ELSE SubSeq(u, d + 1, Len(u))
                  IN /\ ip \o fp # <<>>
                     /\ \A i \in 1..Len(ip) : Has(Digits, ip[i])
                     /\ \A i \in 1..Len(fp) : Has(Digits, fp[i])

RECURSIVE Normalize(_)
Normalize(f) == IF f.e > 0 /\ f.m % 10 = 0 THEN Normalize([f EXCEPT !.m = f.m \div 10, !.e = f.e - 1]) ELSE f

FloatVal(s) == LET t == StrStrip(s)
                   u == Unsigned(t)
                   d == FirstIndexOf(u, ".")
                   ip == IF d = 0 THEN u ELSE SubSeq(u, 1, d - 1)
                   fp == IF d = 0 THEN <<>> ELSE SubSeq(u, d + 1, Len(u))
               IN Normalize([neg |-> IsNegative(t), m |-> DigitsVal(ip \o fp), e |-> Len(fp)])

\* the digits of f with exactly k >= f.e decimal places
FixedStr(f, k) == LET scaled == f.m * Pow10(k - f.e)
                      ip == scaled \div Pow10(k)
                      fp == scaled % Pow10(k)
                  IN (IF f.neg THEN <<"-">> ELSE <<>>) \o NatStr(ip) \o <<".">> \o ZeroPad(fp, k)

\* str(x) for a float x: the shortest decimal, with at least one decimal place
FloatStr(f) == FixedStr(f, IF f.e = 0 THEN 1 ELSE f.e)

-----------------------------------------------------------------------------
(* Conversions raise ValueError: [ok, conv, raw, val].  conv names the      *)
(* conversion that raised, raw the text its message quotes (<<>> when the   *)
(* message quotes none).                                                    *)

Good(v) == [ok |-> TRUE, conv |-> "", raw |-> <<>>, val |-> v]
Bad(conv, raw) == [ok |-> FALSE, conv |-> conv, raw |-> raw, val |-> 0]

\* int(tok) with malformed text read as 0
ToIntDefaultZero(tok) == IF IsIntText(tok) THEN Good(IntVal(tok)) ELSE Good(0)
\* int(tok)
ToInt(tok) == IF IsIntText(tok) THEN Good(IntVal(tok)) ELSE Bad("int", tok)
\* float(tok)
ToFloat(tok) == IF IsFloatText(tok) THEN Good(FloatVal(tok)) ELSE Bad("float", tok)

\* a strptime numeric directive: one to maxlen digits with a value in lo..hi
IsField(s, maxlen, lo, hi) == IsDigits(s) /\ Len(s) <= maxlen /\ DigitsVal(s) >= lo /\ DigitsVal(s) <= hi

IsLeap(y) == (y % 4 = 0 /\ y % 100 # 0) \/ y % 400 = 0
DaysInMonth(y, mo) == IF mo = 2 THEN (IF IsLeap(y) THEN 29 ELSE 28)
                      ELSE IF mo \in {4, 6, 9, 11} THEN 30 ELSE 31

\* datetime.strptime(s, '%Y/%m/%d')
StrptimeDate(s) == LET p == StrSplit(s, "/")
                   IN IF ~(Len(p) = 3 /\ IsDigits(p[1]) /\ Len(p[1]) = 4
                           /\ IsField(p[2], 2, 1, 12) /\ IsField(p[3], 2, 1, 31))
                      THEN Bad("strptime", s)
                      ELSE IF DigitsVal(p[1]) < 1 \/ DigitsVal(p[3]) > DaysInMonth(DigitsVal(p[1]), DigitsVal(p[2]))
                      THEN Bad("datetime", <<>>)
                      ELSE Good([y |-> DigitsVal(p[1]), mo |-> DigitsVal(p[2]), d |-> DigitsVal(p[3])])

\* datetime.strptime(s, '%H:%M:%S')
StrptimeTime(s) == LET p == StrSplit(s, ":")
                   IN IF ~(Len(p) = 3 /\ IsField(p[1], 2, 0, 23) /\ IsField(p[2], 2, 0, 59)
                           /\ IsField(p[3], 2, 0, 61))
                      THEN Bad("strptime", s)
                      ELSE IF DigitsVal(p[3]) > 59
                      THEN Bad("datetime", <<>>)
                      ELSE Good([h |-> DigitsVal(p[1]), mi |-> DigitsVal(p[2]), s |-> DigitsVal(p[3])])

\* int(seconds*1000000) for seconds = float(f), f a fraction '.ddd'
Microseconds(f) == (f.m * Pow10(6)) \div Pow10(f.e)

\* _parse_datetime(datestr, timestr)
ParseDatetime(datestr, timestr) ==
    LET date == StrptimeDate(datestr)
        dot == LastIndexOf(timestr, ".")
        \* timestr.rpartition('.'): ('', '', timestr) when there is no '.'
        hms == IF dot = 0 THEN <<>> ELSE SubSeq(timestr, 1, dot - 1)
        frac == IF dot = 0 THEN timestr ELSE SubSeq(timestr, dot, Len(timestr))
        time == StrptimeTime(hms)
        seconds == ToFloat(frac)
    IN IF ~date.ok THEN date
       ELSE IF ~time.ok THEN time
       ELSE IF ~seconds.ok THEN seconds
       ELSE Good([y |-> date.val.y, mo |-> date.val.mo, d |-> date.val.d,
                  h |-> time.val.h, mi |-> time.val.mi, s |-> time.val.s,
                  us |-> Microseconds(seconds.val)])

TrueWords == { <<"t","r","u","e">>, <<"y">>, <<"y","e","s">>, <<"o","n">>, <<"1">> }
FalseWords == { <<"f","a","l","s","e">>, <<"n">>, <<"n","o">>, <<"o","f","f">>, <<"0">> }

\* _parse_bool(str): falls off the end, returning None, for any other text
ParseBool(str) == IF StrLower(str) \in TrueWords THEN <<TRUE>>
                  ELSE IF StrLower(str) \in FalseWords THEN <<FALSE>>
                  ELSE <<>>

\* _dump_datetime(time): one str holding a comma, so two tokens of the line
DumpDatetime(time) ==
    << ZeroPad(time.y, 4) \o <<"/">> \o ZeroPad(time.mo, 2) \o <<"/">> \o ZeroPad(time.d, 2),
       ZeroPad(time.h, 2) \o <<":">> \o ZeroPad(time.mi, 2) \o <<":">> \o ZeroPad(time.s, 2)
         \o <<".">> \o ZeroPad(time.us \div 1000, 3) >>

\* _dump_bool(value)
DumpBool(value) == IF value = TRUE THEN << <<"1">> >> ELSE << <<"0">> >>

\* str(value) of a str, an int and a float attribute
DumpStr(value) == <<value>>
DumpInt(value) == <<IntStr(value)>>
DumpFloat(value) == <<FloatStr(value)>>
\* format_coordinates: '{:.5f}'.format(x)
FormatCoordinates(x) == <<FixedStr(x, 5)>>

\* None rendered as the session_id placeholder
DumpNoneAsPlaceholder == << <<"1","1","1">> >>
\* what _dump_or_none returns for None
DumpNone == << <<>> >>
\* func(value) for the functions to_string passes to _dump_or_none; the
\* default, str, is named with the type of the attribute it is applied to
Call(func, value) ==
    CASE func = "str of str" -> DumpStr(value)
      [] func = "str of int" -> DumpInt(value)
      [] func = "str of float" -> DumpFloat(value)
      [] func = "format_coordinates" -> FormatCoordinates(value)
      [] func = "_dump_datetime" -> DumpDatetime(value)
      [] func = "_dump_bool" -> DumpBool(value)
\* _dump_or_none(value, func)
DumpOrNone(value, func) == IF value = <<>> THEN DumpNone ELSE Call(func, value[1])

-----------------------------------------------------------------------------
(* class Message *)

MSG == <<"M","S","G">>
Sentinel3 == <<"1","1","1">>
Sentinel5 == <<"1","1","1","1","1">>
Sentinel6 == <<"1","1","1","1","1","1">>

\* Message.__init__: every attribute None
NewMessage == [message_type |-> <<>>, transmission_type |-> <<>>, session_id |-> <<>>,
               aircraft_id |-> <<>>, hexident |-> <<>>, flight_id |-> <<>>,
               generation_time |-> <<>>, record_time |-> <<>>, callsign |-> <<>>,
               altitude |-> <<>>, ground_speed |-> <<>>, track |-> <<>>,
               latitude |-> <<>>, longitude |-> <<>>, vertical_rate |-> <<>>,
               squawk |-> <<>>, squawk_alert |-> <<>>, emergency |-> <<>>,
               spi |-> <<>>, on_ground |-> <<>>]

\* string.strip().split(','): strip stops at a comma, so it trims the first
\* token on the left and the last token on the right
StripSplit(string) == [i \in 1..Len(string) |->
                         LET a == IF i = 1 THEN LStrip(string[i]) ELSE string[i]
                         IN IF i = Len(string) THEN RStrip(a) ELSE a]

\* parts[i], i counted from 0 as in the source
Tok(parts, i) == parts[i + 1]
InRange(parts, i) == i < Len(parts)

\* the running state of parse_string: the exception raised so far ("none"),
\* the message being filled, and whether the method has returned.  at is
\* the index of the token whose conversion raised; the exception object does
\* not carry it (from_string's result leaves it out), the properties use it
\* to name the offending field
Running(st) == st.exc = "none" /\ ~st.ret
IndexError(st) == [st EXCEPT !.exc = "IndexError"]
ValueError(st, i, c) == [st EXCEPT !.exc = "ValueError", !.conv = c.conv, !.raw = c.raw, !.at = i]
Assign(st, attr, i, c) == IF c.ok THEN [st EXCEPT !.msg[attr] = <<c.val>>] ELSE ValueError(st, i, c)

\* if parts[i]: self.attr = parts[i].upper()
SetUpper(st, parts, i, attr) ==
    IF ~InRange(parts, i) THEN IndexError(st)
    ELSE IF Tok(parts, i) = <<>> THEN st
    ELSE [st EXCEPT !.msg[attr] = <<StrUpper(Tok(parts, i))>>]
\* SetInt converting the token before the one it tests
SetIntOffByOne(st, parts, i, attr) ==
    IF ~InRange(parts, i) THEN IndexError(st)
    ELSE IF Tok(parts, i) = <<>> THEN st
    ELSE Assign(st, attr, i, ToInt(Tok(parts, i - 1)))
\* if parts[i]: self.attr = int(parts[i])
SetInt(st, parts, i, attr) ==
    IF ~InRange(parts, i) THEN IndexError(st)
    ELSE IF Tok(parts, i) = <<>> THEN st
    ELSE Assign(st, attr, i, ToInt(Tok(parts, i)))
\* if parts[i]: self.attr = float(parts[i])
SetFloat(st, parts, i, attr) ==
    IF ~InRange(parts, i) THEN IndexError(st)
    ELSE IF Tok(parts, i) = <<>> THEN st
    ELSE Assign(st, attr, i, ToFloat(Tok(parts, i)))
\* if parts[i]: self.attr = _parse_bool(parts[i])
SetBool(st, parts, i, attr) ==
    IF ~InRange(parts, i) THEN IndexError(st)
    ELSE IF Tok(parts, i) = <<>> THEN st
    ELSE [st EXCEPT !.msg[attr] = ParseBool(Tok(parts, i))]

\* if parts[2] and parts[2] != '111': self.session_id = int(parts[2])
SetSessionId(st, parts) ==
    IF ~InRange(parts, 2) THEN IndexError(st)
    ELSE IF Tok(parts, 2) = <<>> \/ Tok(parts, 2) = Sentinel3 THEN st
    ELSE Assign(st, "session_id", 2, ToInt(Tok(parts, 2)))
\* if parts[3] and parts[3] != '11111': self.aircraft_id = int(parts[3])
SetAircraftId(st, parts) ==
    IF ~InRange(parts, 3) THEN IndexError(st)
    ELSE IF Tok(parts, 3) = <<>> \/ Tok(parts, 3) = Sentinel5 THEN st
    ELSE Assign(st, "aircraft_id", 3, ToInt(Tok(parts, 3)))
\* if parts[5] and parts[5] != '111111': self.flight_id = parts[5].upper()
SetFlightId(st, parts) ==
    IF ~InRange(parts, 5) THEN IndexError(st)
    ELSE IF Tok(parts, 5) = <<>> \/ Tok(parts, 5) = Sentinel6 THEN st
    ELSE [st EXCEPT !.msg.flight_id = <<StrUpper(Tok(parts, 5))>>]

\* if len(parts[6]) > 0 and len(parts[7]) > 0:
\*     self.generation_time = _parse_datetime(parts[6], parts[7])
SetGenerationTime(st, parts) ==
    IF ~InRange(parts, 6) THEN IndexError(st)
    ELSE IF Len(Tok(parts, 6)) = 0 THEN st
    ELSE IF ~InRange(parts, 7) THEN IndexError(st)
    ELSE IF Len(Tok(parts, 7)) = 0 THEN st
    ELSE Assign(st, "generation_time", IF StrptimeDate(Tok(parts, 6)).ok THEN 7 ELSE 6,
                ParseDatetime(Tok(parts, 6), Tok(parts, 7)))

\* if len(parts[8]) > 0 and len(parts[8]) > 0:
\*     self.record_time = _parse_datetime(parts[8], parts[9])
\* (the condition reads parts[8] twice and never looks at parts[9])
SetRecordTime(st, parts) ==
    IF ~InRange(parts, 8) THEN IndexError(st)
    ELSE IF Len(Tok(parts, 8)) = 0 THEN st
    ELSE IF Len(Tok(parts, 8)) = 0 THEN st
    ELSE IF ~InRange(parts, 9) THEN IndexError(st)
    ELSE Assign(st, "record_time", IF StrptimeDate(Tok(parts, 8)).ok THEN 9 ELSE 8,
                ParseDatetime(Tok(parts, 8), Tok(parts, 9)))

\* if len(parts) > 10 and parts[10]: self.callsign = parts[10].upper()
SetCallsign(st, parts) ==
    IF Len(parts) > 10 /\ Tok(parts, 10) # <<>>
    THEN [st EXCEPT !.msg.callsign = <<StrUpper(Tok(parts, 10))>>]
    ELSE st

\* the MSG-only block entered for every line that has a message type
IsMSGAnyType(st) == st.msg.message_type # <<>>
\* the workaround tested against the length of the full form
IsRtl1090Subtype7FullLength(st, parts) == st.msg.transmission_type = <<7>> /\ Len(parts) = 22
\* if self.message_type == 'MSG':
IsMSG(st) == st.msg.message_type = <<MSG>>
\* if self.transmission_type == 7 and len(parts) == 21:
IsRtl1090Subtype7(st, parts) == st.msg.transmission_type = <<7>> /\ Len(parts) = 21

\* the workaround's body: if parts[-1]: self.on_ground = _parse_bool(parts[-1]); return
Subtype7Body(st, parts) ==
    LET last == parts[Len(parts)]
    IN [(IF last = <<>> THEN st ELSE [st EXCEPT !.msg.on_ground = ParseBool(last)])
          EXCEPT !.ret = TRUE]

\* the statements of parse_string in order, k = 0, 1, ...; each runs only
\* while no exception was raised and the method has not returned
Statement(k, st, parts) ==
    CASE k = 0 -> SetUpper(st, parts, 0, "message_type")
      [] k = 1 -> SetInt(st, parts, 1, "transmission_type")
      [] k = 2 -> SetSessionId(st, parts)
      [] k = 3 -> SetAircraftId(st, parts)
      [] k = 4 -> SetUpper(st, parts, 4, "hexident")
      [] k = 5 -> SetFlightId(st, parts)
      [] k = 6 -> SetGenerationTime(st, parts)
      [] k = 7 -> SetRecordTime(st, parts)
      [] k = 8 -> SetCallsign(st, parts)
      [] k = 9 -> IF IsMSG(st) THEN SetInt(st, parts, 11, "altitude") ELSE [st EXCEPT !.ret = TRUE]
      [] k = 10 -> IF IsRtl1090Subtype7(st, parts) THEN Subtype7Body(st, parts) ELSE st
      [] k = 11 -> SetFloat(st, parts, 12, "ground_speed")
      [] k = 12 -> SetFloat(st, parts, 13, "track")
      [] k = 13 -> SetFloat(st, parts, 14, "latitude")
      [] k = 14 -> SetFloat(st, parts, 15, "longitude")
      [] k = 15 -> SetInt(st, parts, 16, "vertical_rate")
      [] k = 16 -> SetInt(st, parts, 17, "squawk")
      [] k = 17 -> SetBool(st, parts, 18, "squawk_alert")
      [] k = 18 -> SetBool(st, parts, 19, "emergency")
      [] k = 19 -> SetBool(st, parts, 20, "spi")
      [] k = 20 -> SetBool(st, parts, 21, "on_ground")
      [] OTHER -> [st EXCEPT !.ret = TRUE]

RECURSIVE RunFrom(_, _, _)
RunFrom(k, st, parts) == IF Running(st) THEN RunFrom(k + 1, Statement(k, st, parts), parts) ELSE st

\* Message.parse_string(string) on a fresh Message
ParseString(string) ==
    RunFrom(0, [exc |-> "none", conv |-> "", raw |-> <<>>, at |-> 0 - 1, msg |-> NewMessage, ret |-> FALSE],
            StripSplit(string))

\* Message.from_string(string): the message, or the exception parse_string
\* raised and no message
FromString(string) ==
    LET st == ParseString(string)
    IN [exc |-> st.exc, conv |-> st.conv, raw |-> st.raw,
        rec |-> IF st.exc = "none" THEN <<st.msg>> ELSE <<>>]

\* ','.join(...) + '\n' of the rendered attributes, as the tokens of the result
JoinLine(toks) == [i \in 1..Len(toks) |-> IF i = Len(toks) THEN toks[i] \o <<"\n">> ELSE toks[i]]

\* Message.to_string()
ToString(m) ==
    JoinLine(DumpOrNone(m.message_type, "str of str")
          \o DumpOrNone(m.transmission_type, "str of int")
          \o DumpOrNone(m.session_id, "str of int")
          \o DumpOrNone(m.aircraft_id, "str of int")
          \o DumpOrNone(m.hexident, "str of str")
          \o DumpOrNone(m.flight_id, "str of str")
          \o DumpOrNone(m.generation_time, "_dump_datetime")
          \o DumpOrNone(m.record_time, "_dump_datetime")
          \o DumpOrNone(m.callsign, "str of str")
          \o DumpOrNone(m.altitude, "str of int")
          \o DumpOrNone(m.ground_speed, "str of float")
          \o DumpOrNone(m.track, "str of float")
          \o DumpOrNone(m.latitude, "format_coordinates")
          \o DumpOrNone(m.longitude, "format_coordinates")
          \o DumpOrNone(m.vertical_rate, "str of int")
          \o DumpOrNone(m.squawk, "str of int")
          \o DumpOrNone(m.squawk_alert, "_dump_bool")
          \o DumpOrNone(m.emergency, "_dump_bool")
          \o DumpOrNone(m.spi, "_dump_bool")
          \o DumpOrNone(m.on_ground, "_dump_bool"))

-----------------------------------------------------------------------------
(* Input lines *)

\* the sample line of the class docstring
SampleLine ==
    << <<"M","S","G">>,
       <<"3">>,
       <<"1","1","1">>,
       <<"1","1","1","1","1">>,
       <<"3","C","4","9","C","C">>,
       <<"1","1","1","1","1","1">>,
       <<"2","0","1","5","/","0","5","/","0","1">>,
       <<"1","7",":","0","6",":","5","5",".","3","7","0">>,
       <<"2","0","1","5","/","0","5","/","0","1">>,
       <<"1","7",":","0","6",":","5","5",".","3","2","6">>,
       <<>>,
       <<"2","4","4","0","0">>,
       <<>>,
       <<>>,
       <<"5","0",".","6","5","9","3","1">>,
       <<"6",".","6","7","7","0","9">>,
       <<>>,
       <<>>,
       <<>>,
       <<>>,
       <<>>,
       <<"0">> >>

\* other texts tried at token i (counted from 0): empty, well-formed in other
\* spellings, malformed
Alt(i) ==
    CASE i = 0 -> {<<"m","s","g">>, <<"I","D">>, <<>>}
      [] i = 1 -> {<<"7">>, <<"a","b","c">>, <<>>}
      [] i = 2 -> {<<"5">>, <<"0","1","1","1">>, <<>>}
      [] i = 3 -> {<<"0","1","1","1","1","1">>, <<"a","b","c">>, <<>>}
      [] i = 4 -> {<<"3","c","4","9","c","c">>, <<>>}
      [] i = 5 -> {<<"b","a","1">>, <<>>}
      [] i = 6 -> {<<>>, <<"2","0","1","5","-","0","5","-","0","1">>, <<"2","0","1","6","/","2","/","2","9">>}
      [] i = 7 -> {<<>>, <<"1","7",":","0","6",":","5","5">>, <<"2","3",":","5","9",":","5","9",".","0","0","7">>}
      [] i = 8 -> {<<>>, <<"2","0","1","5","-","0","5","-","0","1">>}
      [] i = 9 -> {<<>>, <<"1","7",":","0","6",":","5","5">>}
      [] i = 10 -> {<<"d","l","h","4">>, <<"D","L","H","4">>}
      [] i = 11 -> {<<>>, <<"a","b","c">>, <<"-","1","0","0">>}
      [] i = 12 -> {<<"4","5","0">>, <<"x">>}
      [] i = 13 -> {<<"9","0",".","5">>, <<"x">>}
      [] i = 14 -> {<<>>, <<"5","0",".","6">>, <<"x">>}
      [] i = 15 -> {<<>>, <<"-","6">>}
      [] i = 16 -> {<<"-","6","4">>, <<"a","b","c">>}
      [] i = 17 -> {<<"0","1","2","3">>, <<"a","b","c">>}
      [] i = 18 -> {<<"1">>, <<"Y","e","s">>, <<"m","a","y","b","e">>}
      [] i = 19 -> {<<"o","n">>, <<"m","a","y","b","e">>}
      [] i = 20 -> {<<"N">>, <<"m","a","y","b","e">>, <<"t","r","u","e">>}
      [] i = 21 -> {<<>>, <<"1">>, <<"m","a","y","b","e">>}

\* how many tokens of a line differ from the sample line
MaxVaried == 2
\* how many trailing tokens a line may lack
MaxCut == 12
\* how many lines the iterator given to iter_messages holds
MaxLines == 3

\* the lines that differ from l in at most k tokens at positions from..Len(l)
RECURSIVE Varied(_, _, _)
Varied(l, k, from) ==
    {l} \cup (IF k = 0 THEN {}
              ELSE UNION { UNION { Varied([l EXCEPT ![i] = a], k - 1, i + 1) : a \in Alt(i - 1) }
                           : i \in from..Len(l) })

Lines == { SubSeq(l, 1, Len(l) - c) : l \in Varied(SampleLine, MaxVaried, 1), c \in 0..MaxCut }

\* the lines of a stream: the sample line, a line of another type, and two
\* lines whose decoding raises
StreamLines == { SampleLine,
                 [SampleLine EXCEPT ![1] = <<"I","D">>],
                 [SampleLine EXCEPT ![2] = <<"a","b","c">>],
                 [SampleLine EXCEPT ![13] = <<"x">>] }

RECURSIVE SeqsUpTo(_, _)
SeqsUpTo(S, n) == IF n = 0 THEN {<<>>}
                  ELSE LET shorter == SeqsUpTo(S, n - 1)
                       IN shorter \cup { Append(q, x) : q \in shorter, x \in S }

-----------------------------------------------------------------------------
(* The codec: one line decoded, the message encoded, the result decoded *)

NoResult == [exc |-> "unset", conv |-> "", raw |-> <<>>, rec |-> <<>>]

Init == /\ line \in Lines
        /\ pc = "start"
        /\ res = NoResult
        /\ out = <<>>
        /\ res2 = NoResult
        /\ src = <<>>
        /\ pos = 0
        /\ gen = "finished"
        /\ yielded = <<>>
        /\ caught = 0
        /\ stopped = TRUE

\* message = Message.from_string(line)
Decode == /\ pc = "start"
          /\ res' = FromString(line)
          /\ pc' = "decoded"
          /\ UNCHANGED <<line, out, res2, src, pos, gen, yielded, caught, stopped>>

\* out = message.to_string()
Encode == /\ pc = "decoded"
          /\ res.exc = "none"
          /\ out' = ToString(res.rec[1])
          /\ pc' = "encoded"
          /\ UNCHANGED <<line, res, res2, src, pos, gen, yielded, caught, stopped>>

\* Message.from_string(out)
Redecode == /\ pc = "encoded"
            /\ res2' = FromString(out)
            /\ pc' = "redecoded"
            /\ UNCHANGED <<line, res, out, src, pos, gen, yielded, caught, stopped>>

Next == Decode \/ Encode \/ Redecode

Spec == Init /\ [][Next]_vars

-----------------------------------------------------------------------------
(* Message.iter_messages(iterator), driven by a caller that calls next() on  *)
(* the generator, catches what decoding raises and goes on until             *)
(* StopIteration                                                             *)

InitIter == /\ line = <<>>
            /\ pc = "iter"
            /\ res = NoResult
            /\ out = <<>>
            /\ res2 = NoResult
            /\ src \in SeqsUpTo(StreamLines, MaxLines)
            /\ pos = 0
            /\ gen = "suspended"
            /\ yielded = <<>>
            /\ caught = 0
            /\ stopped = FALSE

\* next(generator): a finished generator raises StopIteration; a suspended
\* one resumes its loop: the iterator's end finishes it, an item is decoded
\* and yielded, and an exception of from_string leaves the generator, which
\* finishes it
IterNext ==
    /\ ~stopped
    /\ IF gen = "finished" \/ pos = Len(src)
       THEN /\ gen' = "finished"
            /\ stopped' = TRUE
            /\ UNCHANGED <<pos, yielded, caught>>
       ELSE LET r == FromString(src[pos + 1])
            IN /\ pos' = pos + 1
               /\ IF r.exc = "none"
                  THEN /\ yielded' = Append(yielded, r.rec[1])
                       /\ UNCHANGED <<gen, caught>>
                  ELSE /\ gen' = "finished"
                       /\ caught' = caught + 1
                       /\ UNCHANGED yielded
               /\ UNCHANGED stopped
    /\ UNCHANGED <<line, pc, res, out, res2, src>>

NextIter == IterNext

SpecIter == InitIter /\ [][NextIter]_vars

-----------------------------------------------------------------------------
(* Properties *)

Decoded == pc \in {"decoded", "encoded", "redecoded"}
Returned == res.exc = "none"
Has0(l, i) == i < Len(l)
\* the line's first token upper-cases to MSG
IsMSGLine(l) == StrUpper(l[1]) = MSG
\* the 21-token line of transmission type 7
IsSubtype7Line(l) == Len(l) = 21 /\ IsIntText(l[2]) /\ IntVal(l[2]) = 7
IsBoolWord(t) == StrLower(t) \in TrueWords \cup FalseWords
\* l with empty tokens added up to the length of the full form
Padded(l) == l \o [i \in 1..(Len(SampleLine) - Len(l)) |-> <<>>]
BoolAttr(i) == CASE i = 18 -> "squawk_alert" [] i = 19 -> "emergency" [] i = 20 -> "spi" [] OTHER -> "on_ground"
IntPositions == {1, 2, 3, 11, 16, 17}
FloatPositions == {12, 13, 14, 15}
\* token i of l is there, not empty, not the placeholder of its position, and
\* not text that int() (float() at a float position) accepts
Malformed(l, i) ==
    /\ Has0(l, i) /\ Tok(l, i) # <<>>
    /\ ~(i = 2 /\ Tok(l, i) = Sentinel3) /\ ~(i = 3 /\ Tok(l, i) = Sentinel5)
    /\ IF i \in FloatPositions THEN ~IsFloatText(Tok(l, i)) ELSE ~IsIntText(Tok(l, i))
\* the attributes in the order to_string renders them
AttrOrder == <<"message_type", "transmission_type", "session_id", "aircraft_id", "hexident",
               "flight_id", "generation_time", "record_time", "callsign", "altitude",
               "ground_speed", "track", "latitude", "longitude", "vertical_rate", "squawk",
               "squawk_alert", "emergency", "spi", "on_ground">>
\* how many tokens of the encoded line come before attribute k of m: a
\* timestamp that is present takes two
RECURSIVE TokensBefore(_, _)
TokensBefore(m, k) ==
    IF k = 1 THEN 0
    ELSE TokensBefore(m, k - 1)
         + (IF AttrOrder[k - 1] \in {"generation_time", "record_time"} /\ m[AttrOrder[k - 1]] # <<>>
            THEN 2 ELSE 1)
\* the text the encoded line l holds for attribute k of m, line end removed
Rendered(l, m, k) == RStrip(l[TokensBefore(m, k) + 1])
\* the index of the token whose conversion raised
OffendingIndex(l) == ParseString(l).at
\* the messages of the lines of q that decode, in order
RECURSIVE Decodable(_)
Decodable(q) ==
    IF q = <<>> THEN <<>>
    ELSE (IF FromString(Head(q)).exc = "none" THEN FromString(Head(q)).rec ELSE <<>>) \o Decodable(Tail(q))
MsgOnlyAttrs == {"altitude", "ground_speed", "track", "latitude", "longitude", "vertical_rate",
                 "squawk", "squawk_alert", "emergency", "spi", "on_ground"}

\* C1: in a full-form MSG line, and in the last token of the 21-token
\* subtype-7 line, a non-empty boolean token outside both vocabularies makes
\* from_string fail; a token of the true (false) vocabulary gives True (False).
C1_BoolOutsideVocabularyFails ==
    Decoded /\ IsMSGLine(line) =>
       /\ Len(line) = 22 =>
            \A i \in 18..21 :
               /\ Tok(line, i) # <<>> /\ ~IsBoolWord(Tok(line, i)) => ~Returned
               /\ Returned /\ StrLower(Tok(line, i)) \in TrueWords => res.rec[1][BoolAttr(i)] = <<TRUE>>
               /\ Returned /\ StrLower(Tok(line, i)) \in FalseWords => res.rec[1][BoolAttr(i)] = <<FALSE>>
       /\ IsSubtype7Line(line) =>
            (Tok(line, 20) # <<>> /\ ~IsBoolWord(Tok(line, 20)) => ~Returned)

\* C2: for both timestamp pairs, a pair with exactly one empty sub-field is
\* decoded as a pair with both empty: no failure comes of it and the timestamp
\* stays absent.
C2_PartialPairLeftAbsent ==
    Decoded =>
       \A d \in {6, 8} :
          Has0(line, d + 1) /\ ((Tok(line, d) = <<>>) # (Tok(line, d + 1) = <<>>))
             => res = FromString([line EXCEPT ![d + 1] = <<>>, ![d + 2] = <<>>])

\* C3: for a full-form MSG line that decodes, decoding the encoded message
\* gives the same value in each of the 20 attributes (the round trip of the
\* values; the claim adds that the tokens are reproduced but for the sentinels).
C3_RoundTripKeepsValues ==
    pc = "redecoded" /\ IsMSGLine(line) /\ Len(line) = 22 => res2 = res

\* C7: an MSG line of 12 to 21 tokens that is not the subtype-7 line decodes
\* as the same line with its missing tokens empty.
C7_ShortLineReadAsEmpty ==
    Decoded /\ IsMSGLine(line) /\ Len(line) >= 12 /\ Len(line) < 22 /\ ~IsSubtype7Line(line)
       => res = FromString(Padded(line))

\* C4: the 21-token MSG line of transmission type 7 sets altitude from token
\* 11, on_ground from its last token (index 20), leaves the nine attributes
\* between them absent, and reads no index past the end of the line.
C4_Subtype7LineDecoding ==
    Decoded /\ IsMSGLine(line) /\ IsSubtype7Line(line) =>
       /\ res.exc # "IndexError"
       /\ Returned =>
            LET m == res.rec[1]
                last == Tok(line, 20)
            IN /\ m.altitude = IF Tok(line, 11) = <<>> THEN <<>> ELSE <<IntVal(Tok(line, 11))>>
               /\ last = <<>> => m.on_ground = <<>>
               /\ StrLower(last) \in TrueWords => m.on_ground = <<TRUE>>
               /\ StrLower(last) \in FalseWords => m.on_ground = <<FALSE>>
               /\ \A a \in MsgOnlyAttrs \ {"altitude", "on_ground"} : m[a] = <<>>

C4_Witness ==
    /\ Decoded /\ IsMSGLine(line) /\ IsSubtype7Line(line) /\ Returned
    /\ Tok(line, 14) # <<>>
    /\ res.rec[1].altitude = <<24400>>
    /\ res.rec[1].on_ground = <<TRUE>>

\* C5: a line whose type is not MSG decodes as its first eleven tokens alone,
\* whatever follows them and however many tokens follow, and its eleven
\* MSG-only attributes stay absent.
C5_NonMSGIgnoresTrailingTokens ==
    Decoded /\ ~IsMSGLine(line) =>
       /\ res = FromString(SubSeq(line, 1, IF Len(line) < 11 THEN Len(line) ELSE 11))
       /\ Returned => \A a \in MsgOnlyAttrs : res.rec[1][a] = <<>>

C5_Witness ==
    /\ Decoded /\ ~IsMSGLine(line) /\ Returned /\ Len(line) = 22
    /\ Tok(line, 0) # <<>>
    /\ Tok(line, 11) # <<>>
    /\ Malformed(line, 12)

\* C6 as claimed: a malformed token at an integer or float position (1, 2, 3
\* of every line; 11 to 17 of an MSG line) makes from_string fail.
C6_MalformedNumberFails ==
    Decoded =>
       \A i \in IntPositions \cup FloatPositions :
          (i <= 3 \/ IsMSGLine(line)) /\ Malformed(line, i) => ~Returned

\* C6 as amended: the same, but tokens 12 to 17 count only when the line is
\* not the 21-token line of transmission type 7, of which parse_string reads
\* nothing between token 11 and the last.
C6_MalformedNumberFailsUnlessSkipped ==
    Decoded =>
       \A i \in IntPositions \cup FloatPositions :
          /\ i <= 3 \/ IsMSGLine(line)
          /\ i >= 12 => ~IsSubtype7Line(line)
          /\ Malformed(line, i)
          => ~Returned

C6_Witness ==
    /\ Decoded /\ IsMSGLine(line) /\ Len(line) = 22
    /\ Malformed(line, 16)
    /\ res.exc = "ValueError" /\ res.conv = "int" /\ res.raw = Tok(line, 16)

\* C8: when the caller has driven the generator to StopIteration, catching
\* what decoding raised on the way, every line that decodes has been yielded,
\* in order.
C8_LaterLinesStillYielded == stopped => yielded = Decodable(src)

\* C9 as claimed: to_string renders every absent attribute as an empty string
\* at its position and never puts a placeholder text in the session_id,
\* aircraft_id or flight_id position.
C9_NoPlaceholderEmitted ==
    pc \in {"encoded", "redecoded"} =>
       /\ \A k \in 1..Len(AttrOrder) : res.rec[1][AttrOrder[k]] = <<>> => Rendered(out, res.rec[1], k) = <<>>
       /\ out[3] # Sentinel3 /\ out[4] # Sentinel5 /\ out[6] # Sentinel6

\* C9 as amended: every absent attribute is rendered empty; "111" stands in
\* the session_id position exactly when session_id is the integer 111, "11111"
\* in the aircraft_id position exactly when aircraft_id is 11111, and a
\* decoded message never has "111111" in the flight_id position.
C9_PlaceholderOnlyForEqualValue ==
    pc \in {"encoded", "redecoded"} =>
       /\ \A k \in 1..Len(AttrOrder) : res.rec[1][AttrOrder[k]] = <<>> => Rendered(out, res.rec[1], k) = <<>>
       /\ out[3] = Sentinel3 <=> res.rec[1].session_id = <<111>>
       /\ out[4] = Sentinel5 <=> res.rec[1].aircraft_id = <<11111>>
       /\ out[6] # Sentinel6

C9_Witness ==
    /\ pc = "encoded"
    /\ res.rec[1].session_id = <<111>> /\ out[3] = Sentinel3
    /\ res.rec[1].flight_id = <<>> /\ out[6] = <<>>

=============================================================================
